---- MODULE Spec2Model ----
(***************************************************************************)
(* A model of the two-agent iteration controllers of the repository:       *)
(*   src/src/gemini-agents.ts  AgentMemory, SimpleGeminiAgent.run,          *)
(*                             runSimpleGeminiSystem, runSingleIteration,   *)
(*                             shouldContinueIterating (stop-biased)        *)
(*   src/src/index.ts          runIterativeAgentSystem, shouldHaveUsedTools,*)
(*                             shouldAskUser, shouldContinueIterating       *)
(*                             (continue-biased)                            *)
(*                                                                         *)
(* Texts are strings; substring(), slice(), includes(), toLowerCase(),      *)
(* trim() and concatenation are computed character by character, as the    *)
(* code computes them.  The timestamp field of a MemoryEntry and of a      *)
(* history entry is written by the code and never read; it is left out.    *)
(***************************************************************************)
EXTENDS Integers, Sequences, FiniteSets, TLC

VARIABLES
    driver,          \* which program runs: "memory", "gemini", "bridge", "langchain", "ws"
    entries,         \* AgentMemory.entries
    summaries,       \* AgentMemory.summaries
    added,           \* history variable: every entry pushed since the last clear()
    created,         \* history variable: every summary pushed since the last clear()
    freeCalls,       \* harness: number of addEntry calls made with fresh arguments
    pc,              \* the step a driver waits in
    count,           \* context.count / context.iterationCount
    originalRequest, \* context.originalRequest
    userInput,       \* the line being handled (the prompt, in the bridge driver); "" between lines
    history,         \* context.history / context.conversationHistory
    shouldContinue,  \* the loop's local shouldContinue
    analystResult,   \* the loop's local analystResult
    output,          \* the last status line written to the console
    lastRun,         \* history variable: the last agent run, its model outcome and result
    deviations,      \* environment: model calls that did not answer with plain prose
    analystTurns,    \* history variable: analyst turns completed for the current task
    executorTurns,   \* history variable: executor turns completed for the current task
    decided,         \* history variable: every (analyst text, executor text, decision)
    taskStatus,      \* context.taskStatus (LangChain driver)
    lastTurn,        \* history variable: the last agent turn of the LangChain driver
    now,             \* WebSocket server: Date.now()
    conns,           \* WebSocket server: the connections accepted, in order
    checkpoints      \* WebSocket server: the MemorySaver of both agents, by thread id

memVars == <<entries, summaries, added, created>>

lcVars == <<taskStatus, lastTurn>>

wsVars == <<now, conns, checkpoints>>

\* no connection has been accepted
WsIdle ==
    /\ now = 0
    /\ conns = <<>>
    /\ checkpoints = <<>>

----------------------------------------------------------------------------
(* Strings *)

\* s.substring(0, n)
Take(s, n) == SubSeq(s, 1, IF Len(s) < n THEN Len(s) ELSE n)

\* s.slice(-n)
LastN(s, n) == SubSeq(s, IF Len(s) > n THEN Len(s) - n + 1 ELSE 1, Len(s))

\* the last element of a non-empty sequence
Last(s) == s[Len(s)]

UpperChars == <<"A","B","C","D","E","F","G","H","I","J","K","L","M",
                "N","O","P","Q","R","S","T","U","V","W","X","Y","Z">>
LowerChars == <<"a","b","c","d","e","f","g","h","i","j","k","l","m",
                "n","o","p","q","r","s","t","u","v","w","x","y","z">>

LowerChar(c) ==
    IF \E i \in 1..Len(UpperChars) : UpperChars[i] = c
    THEN LowerChars[CHOOSE i \in 1..Len(UpperChars) : UpperChars[i] = c]
    ELSE c

\* s.toLowerCase()
RECURSIVE ToLower(_)
ToLower(s) ==
    IF s = "" THEN "" ELSE LowerChar(SubSeq(s, 1, 1)) \o ToLower(SubSeq(s, 2, Len(s)))

\* s.includes(pattern)
Includes(s, pattern) ==
    \E i \in 1..(Len(s) - Len(pattern) + 1) : SubSeq(s, i, i + Len(pattern) - 1) = pattern

IsSpace(c) == c = " "

\* s.trim()
Char(s, i) == SubSeq(s, i, i)

Trim(s) ==
    IF \A i \in 1..Len(s) : IsSpace(Char(s, i)) THEN ""
    ELSE LET first == CHOOSE i \in 1..Len(s) :
                          ~IsSpace(Char(s, i)) /\ \A j \in 1..(i - 1) : IsSpace(Char(s, j))
             last == CHOOSE i \in 1..Len(s) :
                          ~IsSpace(Char(s, i)) /\ \A j \in (i + 1)..Len(s) : IsSpace(Char(s, j))
         IN  SubSeq(s, first, last)

----------------------------------------------------------------------------
(* AgentMemory, src/src/gemini-agents.ts:61-138 *)

maxEntries == 10
ResultBudget == 200
SummaryResultBudget == 80
ContextResultBudget == 100
SummaryPeriod == 3
maxSummaries == 3
ContextSummaries == 2
ContextEntries == 4

\* The memory object as a value, so that a handler making several addEntry
\* calls threads it through them.
Mem == [entries |-> entries, summaries |-> summaries, added |-> added, created |-> created]

EmptyMem == [entries |-> <<>>, summaries |-> <<>>, added |-> <<>>, created |-> <<>>]

InRange(e, currentIteration) ==
    e.iteration >= currentIteration - 2 /\ e.iteration <= currentIteration

\* `${entry.agent}: ${entry.action} -> ${entry.result.substring(0, 80)}`
SummaryPart(e) ==
    [agent |-> e.agent, action |-> e.action, result |-> Take(e.result, SummaryResultBudget)]

createSummary_wideRange(mem, currentIteration) ==
    LET lastThreeIterations ==
            SelectSeq(mem.entries, LAMBDA e : e.iteration >= currentIteration - 3
                                              /\ e.iteration <= currentIteration)
    IN  IF Len(lastThreeIterations) = 0 THEN mem
        ELSE
        LET summary == [j \in 1..Len(lastThreeIterations) |-> SummaryPart(lastThreeIterations[j])]
            line == [from |-> currentIteration - 2, to |-> currentIteration, parts |-> summary]
            pushed == Append(mem.summaries, line)
        IN  [mem EXCEPT !.summaries = IF Len(pushed) > maxSummaries
                                      THEN LastN(pushed, maxSummaries) ELSE pushed,
                        !.created = Append(@, line)]

createSummary_keepOldest(mem, currentIteration) ==
    LET lastThreeIterations ==
            SelectSeq(mem.entries, LAMBDA e : InRange(e, currentIteration))
    IN  IF Len(lastThreeIterations) = 0 THEN mem
        ELSE
        LET summary == [j \in 1..Len(lastThreeIterations) |-> SummaryPart(lastThreeIterations[j])]
            line == [from |-> currentIteration - 2, to |-> currentIteration, parts |-> summary]
            pushed == Append(mem.summaries, line)
        IN  [mem EXCEPT !.summaries = IF Len(pushed) > maxSummaries
                                      THEN SubSeq(pushed, 1, maxSummaries) ELSE pushed,
                        !.created = Append(@, line)]

createSummary(mem, currentIteration) ==
    LET lastThreeIterations ==
            SelectSeq(mem.entries, LAMBDA e : InRange(e, currentIteration))
    IN  IF Len(lastThreeIterations) = 0 THEN mem
        ELSE
        LET summary == [j \in 1..Len(lastThreeIterations) |-> SummaryPart(lastThreeIterations[j])]
            line == [from |-> currentIteration - 2, to |-> currentIteration, parts |-> summary]
            pushed == Append(mem.summaries, line)
        IN  [mem EXCEPT !.summaries = IF Len(pushed) > maxSummaries
                                      THEN LastN(pushed, maxSummaries) ELSE pushed,
                        !.created = Append(@, line)]

NewEntry(iteration, agent, action, result) ==
    [iteration |-> iteration, agent |-> agent, action |-> action,
     result |-> Take(result, ResultBudget)]

addEntry_keepOldest(mem, iteration, agent, action, result) ==
    LET e == NewEntry(iteration, agent, action, result)
        pushed == [mem EXCEPT !.entries = Append(@, e), !.added = Append(@, e)]
        summed == IF iteration > 0 /\ iteration % SummaryPeriod = 0
                  THEN createSummary(pushed, iteration) ELSE pushed
    IN  [summed EXCEPT !.entries = IF Len(@) > maxEntries
                                   THEN SubSeq(@, 1, maxEntries) ELSE @]

addEntry(mem, iteration, agent, action, result) ==
    LET e == NewEntry(iteration, agent, action, result)
        pushed == [mem EXCEPT !.entries = Append(@, e), !.added = Append(@, e)]
        summed == IF iteration > 0 /\ iteration % SummaryPeriod = 0
                  THEN createSummary(pushed, iteration) ELSE pushed
    IN  [summed EXCEPT !.entries = IF Len(@) > maxEntries
                                   THEN LastN(@, maxEntries) ELSE @]

recentEntries_inclusive(mem, currentIteration) ==
    LastN(SelectSeq(mem.entries, LAMBDA e : e.iteration <= currentIteration), ContextEntries)

\* this.entries.filter(entry => entry.iteration < currentIteration).slice(-4)
recentEntries(mem, currentIteration) ==
    LastN(SelectSeq(mem.entries, LAMBDA e : e.iteration < currentIteration), ContextEntries)

\* `${entry.agent}: ${entry.action} -> ${entry.result.substring(0, 100)}...`
ContextLine(e) ==
    [agent |-> e.agent, action |-> e.action, result |-> Take(e.result, ContextResultBudget)]

getRecentContext_allSummaries(mem, currentIteration) ==
    LET recent == recentEntries(mem, currentIteration)
    IN  IF Len(mem.entries) = 0 /\ Len(mem.summaries) = 0
        THEN [summaries |-> <<>>, recent |-> <<>>]
        ELSE [summaries |-> mem.summaries,
              recent |-> [j \in 1..Len(recent) |-> ContextLine(recent[j])]]

\* The returned text, as its two blocks; both empty is the empty string "".
getRecentContext(mem, currentIteration) ==
    LET recent == recentEntries(mem, currentIteration)
    IN  IF Len(mem.entries) = 0 /\ Len(mem.summaries) = 0
        THEN [summaries |-> <<>>, recent |-> <<>>]
        ELSE [summaries |-> IF Len(mem.summaries) > 0
                            THEN LastN(mem.summaries, ContextSummaries) ELSE <<>>,
              recent |-> [j \in 1..Len(recent) |-> ContextLine(recent[j])]]

clear(mem) == EmptyMem

SetMem(mem) ==
    /\ entries' = mem.entries
    /\ summaries' = mem.summaries
    /\ added' = mem.added
    /\ created' = mem.created

----------------------------------------------------------------------------
(* Texts used by the programs and by their environment *)

TxtCreate == "create it"
TxtDone == "Task completed, created"
TxtOk == "ok"
TxtBlank == " "
TxtAck == "Task acknowledged."
QuotaSentinel == "Quota limit reached, waiting before retry."
ErrorPrefix == "Error: "
Msg429 == "429"
MsgQuota == "quota"
MsgOther == "fetch failed"
ResList == "a.txt"
ResCreated == "Successfully created file: notes.txt"
MsgEnoent == "ENOENT"
TxtCreated == "created notes.txt"
ExecutedPrefix == "Executed "
ExecutedMiddle == " successfully. Result: "
Ellipsis == "..."
ToolPrefix == "Tool "
NotFoundSuffix == " not found!"
ErrorExecuting == "Error executing "
ColonSpace == ": "
Thinking == "thinking"
InitialObservation == "initial_observation"
ArgsDir == "{\"path\":\".\"}"
ArgsNotes == "{\"path\":\"notes.txt\"}"
LineA == "make notes"
LineB == "fix bug"
CmdExit == "exit"
CmdStatus == "status"
CmdMemory == "memory"
LineExitSloppy == " Exit "
list_files == "list_files"
read_file == "read_file"
search_in_files == "search_in_files"
create_file_or_folder == "create_file_or_folder"
edit_file == "edit_file"
move_file_or_folder == "move_file_or_folder"
execute_in_terminal == "execute_in_terminal"
bogus_tool == "bogus_tool"

----------------------------------------------------------------------------
(* Continuation heuristic, stop-biased: src/src/gemini-agents.ts:451-482    *)
(* (src/src/app.ts:630-661 is the same text)                                *)

stopPatterns_noTaskCompleted ==
    << "all files created",
       "calculator complete",
       "finished",
       "done",
       "quota limit" >>

stopPatterns_noQuotaLimit ==
    << "task completed",
       "all files created",
       "calculator complete",
       "finished",
       "done" >>

stopPatterns ==
    << "task completed",
       "all files created",
       "calculator complete",
       "finished",
       "done",
       "quota limit" >>
continuePatterns_noCreate ==
    << "next step",
       "continue",
       "add",
       "need to",
       "should",
       "html",
       "javascript",
       "calculator" >>

continuePatterns ==
    << "next step",
       "continue",
       "create",
       "add",
       "need to",
       "should",
       "html",
       "javascript",
       "calculator" >>

\* patterns.some(pattern => text.includes(pattern))
SomeIncluded(patterns, text) ==
    \E i \in 1..Len(patterns) : Includes(text, patterns[i])

shouldContinueIterating_defaultContinue(analystMsg, executorMsg) ==
    LET combinedText == ToLower(analystMsg \o " " \o executorMsg)
    IN  ~SomeIncluded(stopPatterns, combinedText)

shouldContinueIterating(analystMsg, executorMsg) ==
    LET combinedText == ToLower(analystMsg \o " " \o executorMsg)
    IN  IF SomeIncluded(stopPatterns, combinedText) THEN FALSE
        ELSE SomeIncluded(continuePatterns, combinedText)

----------------------------------------------------------------------------
(* Tool registry and tool dispatch: src/src/tools/vscode-tools.ts:377-385,  *)
(* src/src/gemini-agents.ts:144-164                                         *)

vscodeTools ==
    { create_file_or_folder, list_files, read_file, edit_file,
      move_file_or_folder, search_in_files, execute_in_terminal }

\* the tools declared to the model of each agent (gemini-agents.ts:258-272)
GrantedTools(name) ==
    IF name = "Analyst" THEN {list_files, read_file, search_in_files} ELSE vscodeTools

\* the lookup's miss is not tested: the call on the missing tool throws a
\* TypeError, which the catch turns into an error text
executeTool_noLookupTest(toolName, call) ==
    IF toolName \in vscodeTools /\ call.toolOk THEN call.toolText
    ELSE ErrorExecuting \o toolName \o ColonSpace \o call.toolText

\* call.toolOk, call.toolText: what tool.func does for this call, a returned
\* string or a thrown error's message
executeTool(toolName, call) ==
    IF toolName \notin vscodeTools
    THEN ToolPrefix \o toolName \o NotFoundSuffix
    ELSE IF call.toolOk THEN call.toolText
    ELSE ErrorExecuting \o toolName \o ColonSpace \o call.toolText

----------------------------------------------------------------------------
(* SimpleGeminiAgent.run: src/src/gemini-agents.ts:184-254                  *)
(*                                                                         *)
(* A model outcome o is what the Gemini client does during one run:        *)
(*   o.fails       the first sendMessage throws; o.hasMessage tells whether *)
(*                 the thrown value has a message, o.message is that message*)
(*   o.text        result.response.text()                                   *)
(*   o.calls       result.response.functionCalls(), each with the tool's    *)
(*                 behaviour and the follow-up sendMessage's behaviour      *)
(*                 (fuOk: it returns fuText; otherwise it throws)           *)

RunResult(mem, threw, response, toolsUsed, executed) ==
    [mem |-> mem, threw |-> threw, response |-> response,
     toolsUsed |-> toolsUsed, executed |-> executed]

\* `${name}(${JSON.stringify(args)})`
CallSignature(call) == call.name \o "(" \o call.args \o ")"

RECURSIVE RunCalls(_, _, _, _, _)
RunCalls(acc, name, iteration, calls, k) ==
    IF k > Len(calls) THEN acc
    ELSE
    LET call == calls[k]
        functionResult == executeTool(call.name, call)
        mem1 == addEntry(acc.mem, iteration, name, CallSignature(call), functionResult)
        finalResponse ==
            IF call.fuOk THEN acc.response \o call.fuText
            ELSE ExecutedPrefix \o call.name \o ExecutedMiddle
                 \o Take(functionResult, 100) \o Ellipsis
    IN  RunCalls(RunResult(mem1, FALSE, finalResponse,
                           Append(acc.toolsUsed, call.name),
                           IF call.name \in vscodeTools
                           THEN Append(acc.executed, call.name) ELSE acc.executed),
                 name, iteration, calls, k + 1)

\* the catch block of run
RunCatch_rethrowQuota(mem, o) ==
    IF ~o.hasMessage THEN RunResult(mem, TRUE, "", <<>>, <<>>)
    ELSE IF Includes(o.message, Msg429) \/ Includes(o.message, MsgQuota)
    THEN RunResult(mem, TRUE, "", <<>>, <<>>)
    ELSE RunResult(mem, FALSE, ErrorPrefix \o o.message, <<>>, <<>>)

RunCatch(mem, o) ==
    IF ~o.hasMessage
    THEN \* error.message is undefined: error.message.includes throws a TypeError
         RunResult(mem, TRUE, "", <<>>, <<>>)
    ELSE IF Includes(o.message, Msg429) \/ Includes(o.message, MsgQuota)
    THEN RunResult(mem, FALSE, QuotaSentinel, <<>>, <<>>)
    ELSE RunResult(mem, FALSE, ErrorPrefix \o o.message, <<>>, <<>>)

Run_noThinkingEntry(mem, name, iteration, o) ==
    IF o.fails THEN RunCatch(mem, o)
    ELSE IF Len(o.calls) > 0
    THEN RunCalls(RunResult(mem, FALSE, "", <<>>, <<>>), name, iteration, o.calls, 1)
    ELSE RunResult(mem, FALSE,
                   IF Len(o.text) = 0 \/ Len(Trim(o.text)) = 0 THEN TxtAck ELSE o.text,
                   <<>>, <<>>)

Run(mem, name, iteration, o) ==
    IF o.fails THEN RunCatch(mem, o)
    ELSE IF Len(o.calls) > 0
    THEN RunCalls(RunResult(mem, FALSE, "", <<>>, <<>>), name, iteration, o.calls, 1)
    ELSE LET finalResponse ==
                 IF Len(o.text) = 0 \/ Len(Trim(o.text)) = 0 THEN TxtAck ELSE o.text
         IN  RunResult(addEntry(mem, iteration, name, Thinking, finalResponse),
                       FALSE, finalResponse, <<>>, <<>>)

----------------------------------------------------------------------------
(* The environment: what the model client and the tools may do *)

MaxDeviations == 1   \* model calls per session that do not answer with plain prose

TextOutcome(text) ==
    [fails |-> FALSE, hasMessage |-> FALSE, message |-> "", text |-> text, calls |-> <<>>]

FailOutcome(hasMessage, message) ==
    [fails |-> TRUE, hasMessage |-> hasMessage, message |-> message, text |-> "",
     calls |-> <<>>]

CallsOutcome(calls) ==
    [fails |-> FALSE, hasMessage |-> FALSE, message |-> "", text |-> "", calls |-> calls]

Call(name, args, toolOk, toolText, fuOk, fuText) ==
    [name |-> name, args |-> args, toolOk |-> toolOk, toolText |-> toolText,
     fuOk |-> fuOk, fuText |-> fuText]

CallList == Call(list_files, ArgsDir, TRUE, ResList, TRUE, TxtCreate)
CallCreate == Call(create_file_or_folder, ArgsNotes, TRUE, ResCreated, TRUE, TxtCreated)
CallBogus == Call(bogus_tool, ArgsDir, TRUE, "", TRUE, TxtOk)
CallThrows == Call(read_file, ArgsNotes, FALSE, MsgEnoent, TRUE, TxtCreate)
CallEmptyFollowUp == Call(list_files, ArgsDir, TRUE, ResList, TRUE, "")
CallFollowUpFails == Call(list_files, ArgsDir, TRUE, ResList, FALSE, "")

\* the model answers with prose that asks to go on
DefaultOutcome == TextOutcome(TxtCreate)

ModelOutcomes ==
    { DefaultOutcome,
      TextOutcome(TxtDone), TextOutcome(TxtBlank),
      FailOutcome(TRUE, Msg429), FailOutcome(TRUE, MsgQuota),
      FailOutcome(TRUE, MsgOther), FailOutcome(FALSE, ""),
      CallsOutcome(<<CallBogus>>),
      CallsOutcome(<<CallThrows>>), CallsOutcome(<<CallEmptyFollowUp>>),
      CallsOutcome(<<CallList, CallFollowUpFails>>), CallsOutcome(<<CallList, CallCreate>>) }

\* every response text a run can return
Responses == { Run(EmptyMem, "Analyst", 0, o).response : o \in ModelOutcomes }

\* shouldContinueIterating tabulated over the texts that occur, so that the
\* character-by-character search is done once for each pair of texts
ContinueTable ==
    [a \in Responses |-> [e \in Responses |-> shouldContinueIterating(a, e)]]

\* the lines typed; 'memory' is typed in Gemini sessions only, where it is a command
UserLines == { CmdExit, LineExitSloppy, CmdStatus, CmdMemory, LineA, LineB }

\* userInput.toLowerCase().trim()
Command(line) == Trim(ToLower(line))

\* the lines each branch of the session loop takes (gemini-agents.ts:303-322)
ExitLines == { line \in UserLines : Command(line) = CmdExit }
StatusLines == { line \in UserLines \ ExitLines : Command(line) = CmdStatus }
MemoryLines == { line \in UserLines \ (ExitLines \cup StatusLines) : Command(line) = CmdMemory }
TaskLines == UserLines \ (ExitLines \cup StatusLines \cup MemoryLines)

----------------------------------------------------------------------------
(* Iteration controllers:                                                  *)
(*   runSimpleGeminiSystem   src/src/gemini-agents.ts:285-414 ("gemini")    *)
(*   runSingleIteration      src/src/gemini-agents.ts:497-591 ("bridge")    *)
(*   runIterativeAgentSystem src/src/index.ts:177-371 ("langchain")         *)
(* One action per awaited step; pc is the step the driver waits in.         *)

GeminiMaxIterations == 6
LangChainMaxIterations == 10

maxIterations ==
    IF driver = "langchain" THEN LangChainMaxIterations ELSE GeminiMaxIterations

NoResult == [response |-> "", toolsUsed |-> <<>>]

NoRun == [role |-> "none", iteration |-> 0, outcome |-> DefaultOutcome, threw |-> FALSE,
          response |-> "", toolsUsed |-> <<>>, executed |-> <<>>]

NoTurn ==
    [role |-> "none", content |-> "", usedTools |-> FALSE, forced |-> FALSE,
     forcedContent |-> ""]

RunRecord(role, iteration, o, r) ==
    [role |-> role, iteration |-> iteration, outcome |-> o, threw |-> r.threw,
     response |-> r.response, toolsUsed |-> r.toolsUsed, executed |-> r.executed]

OutcomeAllowed(o) == o = DefaultOutcome \/ deviations < MaxDeviations

Spend(o) == deviations' = IF o = DefaultOutcome THEN deviations ELSE deviations + 1

\* while (shouldContinue && context.count < maxIterations)
LoopGuard_offByOne == shouldContinue /\ count <= maxIterations

LoopGuard_noCap == shouldContinue

LoopGuard_ignoreStop == count < maxIterations

LoopGuard == shouldContinue /\ count < maxIterations

InitCommon ==
    /\ entries = <<>>
    /\ summaries = <<>>
    /\ added = <<>>
    /\ created = <<>>
    /\ freeCalls = 0
    /\ count = 0
    /\ history = <<>>
    /\ shouldContinue = TRUE
    /\ analystResult = NoResult
    /\ output = "banner"
    /\ lastRun = NoRun
    /\ deviations = 0
    /\ analystTurns = 0
    /\ executorTurns = 0
    /\ decided = {}
    /\ taskStatus = "in-progress"
    /\ lastTurn = NoTurn
    /\ WsIdle

InitGemini ==
    /\ driver = "gemini"
    /\ pc = "await"
    /\ originalRequest = ""
    /\ userInput = ""
    /\ InitCommon

\* the prompt is process.env.CLI_PROMPT; memory is cleared before the observation
InitBridge ==
    /\ driver = "bridge"
    /\ pc = "observe"
    /\ userInput = LineA
    /\ originalRequest = userInput
    /\ InitCommon

\* a rejected run: the try/catch of the session loop (gemini-agents.ts:407-410)
\* or the rejected promise of runSingleIteration (gemini-agents.ts:491)
Thrown ==
    /\ pc' = IF driver = "bridge" THEN "crashed" ELSE "await"
    /\ output' = IF driver = "bridge" THEN "unhandled" ELSE "mainLoopError"
    /\ userInput' = IF driver = "bridge" THEN userInput ELSE ""

UserExit ==
    /\ driver \in {"gemini", "langchain"}
    /\ pc = "await"
    /\ \E line \in ExitLines :
          /\ pc' = "closed"
          /\ output' = "bye"
    /\ UNCHANGED <<driver, wsVars, lcVars, memVars, freeCalls, count, originalRequest, userInput, history,
                   shouldContinue, analystResult, lastRun, deviations, analystTurns,
                   executorTurns, decided>>

UserStatus ==
    /\ driver \in {"gemini", "langchain"}
    /\ pc = "await"
    /\ \E line \in StatusLines : output' = "status"
    /\ UNCHANGED <<driver, wsVars, lcVars, memVars, freeCalls, pc, count, originalRequest, userInput, history,
                   shouldContinue, analystResult, lastRun, deviations, analystTurns,
                   executorTurns, decided>>

UserMemory ==
    /\ driver = "gemini"
    /\ pc = "await"
    /\ \E line \in MemoryLines : output' = "memory"
    /\ UNCHANGED <<driver, wsVars, lcVars, memVars, freeCalls, pc, count, originalRequest, userInput, history,
                   shouldContinue, analystResult, lastRun, deviations, analystTurns,
                   executorTurns, decided>>

\* any other line: a task request
UserTask ==
    /\ driver \in {"gemini", "langchain"}
    /\ pc = "await"
    /\ \E line \in TaskLines :
          /\ userInput' = line
          /\ originalRequest' = IF count = 0 THEN line ELSE originalRequest
          /\ IF count = 0 /\ driver = "gemini"
             THEN /\ SetMem(clear(Mem))
                  /\ pc' = "observe"
                  /\ output' = "memoryCleared"
                  /\ UNCHANGED shouldContinue
             ELSE /\ shouldContinue' = TRUE
                  /\ pc' = "loop"
                  /\ UNCHANGED <<memVars, output>>
    /\ analystTurns' = 0
    /\ executorTurns' = 0
    /\ UNCHANGED <<driver, wsVars, lcVars, freeCalls, count, history, analystResult, lastRun,
                   deviations, decided>>

\* the initial observation: analystAgent.run(observationPrompt, 0), then
\* agentMemory.addEntry(0, "Analyst", "initial_observation", response)
Observe ==
    /\ driver \in {"gemini", "bridge"}
    /\ pc = "observe"
    /\ \E o \in ModelOutcomes :
          /\ OutcomeAllowed(o)
          /\ Spend(o)
          /\ LET r == Run(Mem, "Analyst", 0, o)
             IN  /\ lastRun' = RunRecord("observe", 0, o, r)
                 /\ IF r.threw
                    THEN /\ Thrown
                         /\ SetMem(r.mem)
                         /\ UNCHANGED shouldContinue
                    ELSE /\ SetMem(addEntry(r.mem, 0, "Analyst", InitialObservation,
                                            r.response))
                         /\ shouldContinue' = TRUE
                         /\ pc' = "loop"
                         /\ output' = "observed"
                         /\ UNCHANGED userInput
    /\ UNCHANGED <<driver, wsVars, lcVars, freeCalls, count, originalRequest, history,
                   analystResult, analystTurns, executorTurns, decided>>

\* the test of the while loop, and what follows the loop when it is left
LoopTest ==
    /\ driver \in {"gemini", "bridge", "langchain"}
    /\ pc = "loop"
    /\ IF LoopGuard
       THEN /\ count' = count + 1
            /\ pc' = "analyst"
            /\ output' = "iteration"
            /\ UNCHANGED userInput
       ELSE /\ pc' = IF driver = "bridge" THEN "finished" ELSE "await"
            /\ output' = IF count >= maxIterations THEN "maxIterations" ELSE output
            /\ userInput' = IF driver = "bridge" THEN userInput ELSE ""
            /\ UNCHANGED count
    /\ UNCHANGED <<driver, wsVars, lcVars, memVars, freeCalls, originalRequest, history,
                   shouldContinue, analystResult, lastRun, deviations, analystTurns,
                   executorTurns, decided>>

AnalystTurn ==
    /\ driver \in {"gemini", "bridge"}
    /\ pc = "analyst"
    /\ \E o \in ModelOutcomes :
          /\ OutcomeAllowed(o)
          /\ Spend(o)
          /\ LET r == Run(Mem, "Analyst", count, o)
             IN  /\ lastRun' = RunRecord("analyst", count, o, r)
                 /\ SetMem(r.mem)
                 /\ IF r.threw
                    THEN /\ Thrown
                         /\ UNCHANGED <<history, analystResult, analystTurns>>
                    ELSE /\ history' = Append(history,
                                [agent |-> "analyst", message |-> r.response,
                                 toolsUsed |-> r.toolsUsed])
                         /\ analystResult' = [response |-> r.response,
                                              toolsUsed |-> r.toolsUsed]
                         /\ analystTurns' = analystTurns + 1
                         /\ pc' = "executor"
                         /\ UNCHANGED <<output, userInput>>
    /\ UNCHANGED <<driver, wsVars, lcVars, freeCalls, count, originalRequest, shouldContinue,
                   executorTurns, decided>>

ExecutorTurn ==
    /\ driver \in {"gemini", "bridge"}
    /\ pc = "executor"
    /\ \E o \in ModelOutcomes :
          /\ OutcomeAllowed(o)
          /\ Spend(o)
          /\ LET r == Run(Mem, "Executor", count, o)
                 go == ContinueTable[analystResult.response][r.response]
             IN  /\ lastRun' = RunRecord("executor", count, o, r)
                 /\ SetMem(r.mem)
                 /\ IF r.threw
                    THEN /\ Thrown
                         /\ UNCHANGED <<history, shouldContinue, executorTurns, decided>>
                    ELSE /\ history' = Append(history,
                                [agent |-> "executor", message |-> r.response,
                                 toolsUsed |-> r.toolsUsed])
                         /\ shouldContinue' = go
                         /\ decided' = decided \cup
                                {<<analystResult.response, r.response, go>>}
                         /\ executorTurns' = executorTurns + 1
                         /\ pc' = "loop"
                         /\ output' = IF go THEN "continuing" ELSE "taskCompleted"
                         /\ UNCHANGED userInput
    /\ UNCHANGED <<driver, wsVars, lcVars, freeCalls, count, originalRequest, analystResult,
                   analystTurns>>

----------------------------------------------------------------------------
(* The LangChain CLI driver: src/src/index.ts                               *)

actionKeywords ==
    << "create", "write", "add", "modify", "edit", "update",
       "run", "execute", "install", "build", "start",
       "check", "read", "view", "list", "search" >>

investigationKeywords ==
    << "check", "examine", "look at", "read", "view", "list", "search", "find" >>

shouldHaveUsedTools_ignoreExecuted(agentResponse, agentType) ==
    LET response == ToLower(agentResponse)
    IN  IF agentType = "executor"
        THEN /\ SomeIncluded(actionKeywords, response)
             /\ \/ Includes(response, "tool")
                \/ Includes(response, "file")
                \/ Includes(response, "command")
             /\ ~Includes(response, "tool call")
        ELSE IF agentType = "analyst"
        THEN /\ SomeIncluded(investigationKeywords, response)
             /\ ~Includes(response, "tool call")
        ELSE FALSE

shouldHaveUsedTools(agentResponse, agentType) ==
    LET response == ToLower(agentResponse)
    IN  IF agentType = "executor"
        THEN LET hasActionKeywords == SomeIncluded(actionKeywords, response)
                 hasToolMentions == \/ Includes(response, "tool")
                                    \/ Includes(response, "file")
                                    \/ Includes(response, "command")
             IN  /\ hasActionKeywords
                 /\ hasToolMentions
                 /\ ~Includes(response, "tool call")
                 /\ ~Includes(response, "executed")
        ELSE IF agentType = "analyst"
        THEN /\ SomeIncluded(investigationKeywords, response)
             /\ ~Includes(response, "tool call")
             /\ ~Includes(response, "executed")
        ELSE FALSE

askPatterns ==
    << "QUESTIONS FOR USER:", "need clarification", "please specify",
       "which approach", "more details", "unclear about" >>

shouldAskUser(analystMessage) ==
    \E i \in 1..Len(askPatterns) :
        Includes(ToLower(analystMessage), ToLower(askPatterns[i]))

definiteStopPatterns ==
    << "task is completely finished",
       "everything is done",
       "no more work needed",
       "waiting for user input",
       "need clarification from user",
       "ask the user",
       "user needs to decide" >>

shouldContinueIteratingLC_caseSensitive(analystMsg, executorMsg) ==
    LET combinedText == analystMsg \o " " \o executorMsg
    IN  ~SomeIncluded(definiteStopPatterns, combinedText)

\* shouldContinueIterating of index.ts: continue unless a definite stop
shouldContinueIteratingLC(analystMsg, executorMsg) ==
    LET combinedText == ToLower(analystMsg \o " " \o executorMsg)
    IN  ~SomeIncluded(definiteStopPatterns, combinedText)

\* What agent.invoke does: it throws (with or without a message on the
\* thrown value), or it returns messages, the last one with this content,
\* some of them carrying tool calls or none.
LcAnswer(content, usedTools) ==
    [throws |-> FALSE, hasMessage |-> FALSE, message |-> "", content |-> content,
     usedTools |-> usedTools]

LcThrow(hasMessage, message) ==
    [throws |-> TRUE, hasMessage |-> hasMessage, message |-> message, content |-> "",
     usedTools |-> FALSE]

LcPlain == "ok so far"
LcCheckFile == "I will check the file"
LcCreateFile == "I will create the file now"
LcExecuted == "I executed create_file_or_folder and it succeeded"
LcAsk == "Please specify the folder"
LcStop == "Everything is done"
MsgRecursion == "Recursion limit of 15 reached"

LcDefault == LcAnswer(LcPlain, FALSE)

LcOutcomes ==
    { LcDefault,
      LcAnswer(LcCheckFile, FALSE), LcAnswer(LcCheckFile, TRUE),
      LcAnswer(LcCreateFile, FALSE), LcAnswer(LcExecuted, FALSE),
      LcAnswer(LcAsk, FALSE), LcAnswer(LcStop, TRUE),
      LcThrow(TRUE, MsgRecursion), LcThrow(FALSE, "") }

\* every content an agent turn can end with
LcContents == { o.content : o \in LcOutcomes }

\* the three text heuristics tabulated over the contents that occur, so that
\* the character-by-character search is done once for each text
ShouldHaveUsedTable ==
    [agentType \in {"analyst", "executor"} |->
        [content \in LcContents |-> shouldHaveUsedTools(content, agentType)]]

AskTable == [content \in LcContents |-> shouldAskUser(content)]

ContinueTableLC ==
    [a \in LcContents |-> [e \in LcContents |-> shouldContinueIteratingLC(a, e)]]

\* the else branch of the tool-usage check: no message of the result carries
\* tool calls, and the classifier says the agent should have used tools
ForceDue_ignoreToolUse(content, usedTools, agentType) ==
    ShouldHaveUsedTable[agentType][content]

ForceDue(content, usedTools, agentType) ==
    ~usedTools /\ ShouldHaveUsedTable[agentType][content]

LcAllowed(o) == o = LcDefault \/ deviations < MaxDeviations

LcSpend(o) == deviations' = IF o = LcDefault THEN deviations ELSE deviations + 1

\* catch (error): error.message.includes("Recursion limit") (index.ts:359-367);
\* on a thrown value without message the catch block itself throws, the
\* promise of runIterativeAgentSystem rejects and the session is over
IterationError == "Error in iteration: "

ForcedContent_keepOriginal(original, forced) == original

\* analystResponse.content = forcedResponse.content (and the same for the
\* executor): the content the rest of the iteration works with
ForcedContent(original, forced) == forced

LcThrown(o) ==
    /\ pc' = IF o.hasMessage THEN "await" ELSE "crashed"
    /\ output' = IF ~o.hasMessage THEN "unhandled"
                 ELSE IF Includes(o.message, "Recursion limit") THEN "recursionLimit"
                 ELSE IterationError \o o.message
    /\ userInput' = ""

\* the analyst's response is recorded; shouldAskUser ends the loop
LcRecordAnalyst(content) ==
    /\ history' = Append(history, [agent |-> "analyst", message |-> content])
    /\ analystResult' = [response |-> content, toolsUsed |-> <<>>]
    /\ IF AskTable[content]
       THEN /\ shouldContinue' = FALSE
            /\ pc' = "loop"
            /\ output' = "clarification"
       ELSE /\ pc' = "executor"
            /\ UNCHANGED <<shouldContinue, output>>
    /\ UNCHANGED userInput

\* the executor's response is recorded and the loop decides
LcRecordExecutor(content) ==
    LET go == ContinueTableLC[analystResult.response][content]
    IN  /\ history' = Append(history, [agent |-> "executor", message |-> content])
        /\ shouldContinue' = go
        /\ taskStatus' = IF go THEN taskStatus ELSE "completed"
        /\ output' = IF go THEN "continuing" ELSE "taskCompleted"
        /\ pc' = "loop"
        /\ UNCHANGED userInput

LcAnalystInvoke ==
    /\ driver = "langchain"
    /\ pc = "analyst"
    /\ \E o \in LcOutcomes :
          /\ LcAllowed(o)
          /\ LcSpend(o)
          /\ IF o.throws
             THEN /\ LcThrown(o)
                  /\ UNCHANGED <<history, analystResult, shouldContinue, lastTurn,
                                 analystTurns>>
             ELSE /\ lastTurn' = [role |-> "analyst", content |-> o.content,
                                  usedTools |-> o.usedTools, forced |-> FALSE,
                                  forcedContent |-> ""]
                  /\ analystTurns' = analystTurns + 1
                  /\ IF ForceDue(o.content, o.usedTools, "analyst")
                     THEN /\ pc' = "analystForce"
                          /\ output' = "forcing"
                          /\ UNCHANGED <<history, analystResult, shouldContinue, userInput>>
                     ELSE LcRecordAnalyst(o.content)
    /\ UNCHANGED <<driver, wsVars, memVars, freeCalls, count, originalRequest, lastRun,
                   executorTurns, decided, taskStatus>>

LcAnalystForce_untilToolsUsed ==
    /\ driver = "langchain"
    /\ pc = "analystForce"
    /\ \E o \in LcOutcomes :
          /\ LcAllowed(o)
          /\ LcSpend(o)
          /\ lastTurn' = [lastTurn EXCEPT !.forced = TRUE, !.forcedContent = o.content]
          /\ IF o.throws
             THEN /\ LcThrown(o)
                  /\ UNCHANGED <<history, analystResult, shouldContinue>>
             ELSE IF ~o.usedTools
             THEN /\ pc' = "analystForce"
                  /\ output' = "forcing"
                  /\ UNCHANGED <<history, analystResult, shouldContinue, userInput>>
             ELSE LcRecordAnalyst(ForcedContent(lastTurn.content, o.content))
    /\ UNCHANGED <<driver, wsVars, memVars, freeCalls, count, originalRequest, lastRun,
                   analystTurns, executorTurns, decided, taskStatus>>

\* forceToolUsage(analystAgent, ...); its last message replaces the content
LcAnalystForce ==
    /\ driver = "langchain"
    /\ pc = "analystForce"
    /\ \E o \in LcOutcomes :
          /\ LcAllowed(o)
          /\ LcSpend(o)
          /\ lastTurn' = [lastTurn EXCEPT !.forced = TRUE, !.forcedContent = o.content]
          /\ IF o.throws
             THEN /\ LcThrown(o)
                  /\ UNCHANGED <<history, analystResult, shouldContinue>>
             ELSE LcRecordAnalyst(ForcedContent(lastTurn.content, o.content))
    /\ UNCHANGED <<driver, wsVars, memVars, freeCalls, count, originalRequest, lastRun,
                   analystTurns, executorTurns, decided, taskStatus>>

LcExecutorInvoke ==
    /\ driver = "langchain"
    /\ pc = "executor"
    /\ \E o \in LcOutcomes :
          /\ LcAllowed(o)
          /\ LcSpend(o)
          /\ IF o.throws
             THEN /\ LcThrown(o)
                  /\ UNCHANGED <<history, shouldContinue, taskStatus, lastTurn,
                                 executorTurns>>
             ELSE /\ lastTurn' = [role |-> "executor", content |-> o.content,
                                  usedTools |-> o.usedTools, forced |-> FALSE,
                                  forcedContent |-> ""]
                  /\ executorTurns' = executorTurns + 1
                  /\ IF ForceDue(o.content, o.usedTools, "executor")
                     THEN /\ pc' = "executorForce"
                          /\ output' = "forcing"
                          /\ UNCHANGED <<history, shouldContinue, taskStatus, userInput>>
                     ELSE LcRecordExecutor(o.content)
    /\ UNCHANGED <<driver, wsVars, memVars, freeCalls, count, originalRequest, analystResult,
                   lastRun, analystTurns, decided>>

\* forceToolUsage(executorAgent, ...); its last message replaces the content
LcExecutorForce ==
    /\ driver = "langchain"
    /\ pc = "executorForce"
    /\ \E o \in LcOutcomes :
          /\ LcAllowed(o)
          /\ LcSpend(o)
          /\ lastTurn' = [lastTurn EXCEPT !.forced = TRUE, !.forcedContent = o.content]
          /\ IF o.throws
             THEN /\ LcThrown(o)
                  /\ UNCHANGED <<history, shouldContinue, taskStatus>>
             ELSE LcRecordExecutor(ForcedContent(lastTurn.content, o.content))
    /\ UNCHANGED <<driver, wsVars, memVars, freeCalls, count, originalRequest, analystResult,
                   lastRun, analystTurns, executorTurns, decided>>

InitLangChain ==
    /\ driver = "langchain"
    /\ pc = "await"
    /\ originalRequest = ""
    /\ userInput = ""
    /\ InitCommon

----------------------------------------------------------------------------
(* The prompts, as the fields the code puts in them *)

\* buildAnalystPrompt(context, currentInput), gemini-agents.ts:416-437
buildAnalystPrompt(currentInput) ==
    LET executors == SelectSeq(history, LAMBDA h : h.agent = "executor")
    IN  [iteration |-> count,
         request |-> originalRequest,
         hasCurrentInput |-> count = 1,
         currentInput |-> IF count = 1 THEN currentInput ELSE "",
         hasLastExecutor |-> Len(executors) > 0,
         lastExecutor |-> IF Len(executors) > 0
                          THEN Take(Last(executors).message, 200) ELSE "",
         toolsUsed |-> IF Len(executors) > 0 THEN Last(executors).toolsUsed ELSE <<>>]

\* buildExecutorPrompt(context, analystGuidance), gemini-agents.ts:439-449
buildExecutorPrompt(analystGuidance) ==
    [iteration |-> count,
     request |-> originalRequest,
     guidance |-> Take(analystGuidance, 300)]

\* buildAnalystContext(context, currentInput), index.ts:373-392
buildAnalystContext(currentInput) ==
    [iteration |-> count,
     request |-> originalRequest,
     hasCurrentInput |-> count = 1,
     currentInput |-> IF count = 1 THEN currentInput ELSE "",
     recentHistory |-> LastN(history, 4)]

NoGuidance == "No guidance available"

\* buildExecutorContext(context), index.ts:394-417
buildExecutorContext ==
    LET analysts == SelectSeq(history, LAMBDA h : h.agent = "analyst")
        recentProgress == SubSeq(history, Len(history) - 2, Len(history) - 1)
    IN  [iteration |-> count,
         request |-> originalRequest,
         guidance |-> IF Len(analysts) = 0 \/ Last(analysts).message = ""
                      THEN NoGuidance ELSE Last(analysts).message,
         recentProgress |-> IF Len(history) > 2
                            THEN [j \in 1..Len(SelectSeq(recentProgress,
                                                        LAMBDA h : h.agent = "executor")) |->
                                    Take(SelectSeq(recentProgress,
                                                   LAMBDA h : h.agent = "executor")[j].message,
                                         200)]
                            ELSE <<>>]

\* the prompt the analyst of the current iteration is given
AnalystPrompt ==
    IF driver = "langchain" THEN buildAnalystContext(userInput)
    ELSE buildAnalystPrompt(userInput)

ctlVars == <<pc, count, originalRequest, userInput, history, shouldContinue,
             analystResult, output, lastRun, deviations, analystTurns, executorTurns,
             decided, lcVars>>

nonWsVars == <<driver, memVars, freeCalls, ctlVars>>

\* what a step of the WebSocket server that calls an agent leaves alone
wsFrame == <<driver, memVars, freeCalls, pc, count, originalRequest, userInput, history,
             shouldContinue, analystResult, output, lastRun, analystTurns, executorTurns,
             decided, lcVars>>

----------------------------------------------------------------------------
(* The WebSocket server: src/src/app.ts:178-290                             *)
(*                                                                         *)
(* conns[c] is the c-th connection accepted: its thread identifiers, whether*)
(* it is open, the chat messages it received, the message handlers in       *)
(* flight (each an async callback waiting in a thinker or doer call) and    *)
(* the events sent on it.  checkpoints is the MemorySaver both agents       *)
(* share: for each thread identifier used, what was written under it.       *)

MaxConns == 2        \* connections accepted
MaxTime == 1         \* Date.now() ranges over 0..MaxTime
MaxMessages == 2     \* messages received by the server, over all connections

DecimalDigits == <<"0", "1", "2", "3", "4", "5", "6", "7", "8", "9">>

\* `${n}` for a non-negative integer n
RECURSIVE NumberText(_)
NumberText(n) ==
    IF n < 10 THEN DecimalDigits[n + 1]
    ELSE NumberText(n \div 10) \o DecimalDigits[(n % 10) + 1]

\* s.substr(start, length)
Substr(s, start, length) ==
    SubSeq(s, start + 1, IF Len(s) < start + length THEN Len(s) ELSE start + length)

\* Math.random().toString(36): two values the generator may produce; they
\* differ in the last two characters only
RandomTexts == { "0.k3j9x2m1qzr", "0.k3j9x2m1qa4" }

\* `conversation-${Date.now()}-${Math.random().toString(36).substr(2, 9)}`
NewThreadId(time, randomText) ==
    "conversation-" \o NumberText(time) \o "-" \o Substr(randomText, 2, 9)

thinkerThreadId(threadId) == "thinker-" \o threadId

doerThreadId(threadId) == "doer-" \o threadId

\* What an agent invocation of the server does: it returns a last message
\* and some tool messages, or throws.
WsAnswer(content, toolMessages) ==
    [throws |-> FALSE, hasMessage |-> FALSE, message |-> "", content |-> content,
     toolMessages |-> toolMessages]

WsThrow(hasMessage, message) ==
    [throws |-> TRUE, hasMessage |-> hasMessage, message |-> message, content |-> "",
     toolMessages |-> 0]

WsPlan == "plan: edit notes.txt"
WsReport == "edited notes.txt"
MsgRecursionLower == "recursion limit reached"
MsgJson == "Unexpected token h in JSON at position 0"

WsDefault == WsAnswer(WsPlan, 0)

WsOutcomes ==
    { WsDefault, WsAnswer(WsReport, 1),
      WsThrow(TRUE, MsgRecursion), WsThrow(TRUE, MsgRecursionLower) }

WsAllowed(o) == o = WsDefault \/ deviations < MaxDeviations

WsSpend(o) == deviations' = IF o = WsDefault THEN deviations ELSE deviations + 1

RECURSIVE WsReceived(_)
WsReceived(c) == IF c = 0 THEN 0 ELSE conns[c].received + WsReceived(c - 1)

\* an event sent while message msg of the connection is handled; text is the
\* message of an 'error' event
WsEvent(kind, msg, text) == [kind |-> kind, msg |-> msg, text |-> text]

TooComplex == "Task too complex - trying simpler approach. Please break down your request into smaller steps."

\* ws.send, once for each of the events
WsSend(conn, events) == [conn EXCEPT !.sent = @ \o events]

\* agent.invoke under a thread id: the checkpoint of the thread is read and
\* extended
WsCheckpoint(thread, c, msg) ==
    [t \in DOMAIN checkpoints \cup {thread} |->
        IF t = thread
        THEN (IF t \in DOMAIN checkpoints THEN checkpoints[t] ELSE <<>>)
             \o <<[conn |-> c, msg |-> msg]>>
        ELSE checkpoints[t]]

\* the inner catch (app.ts:263-272) and, for what it rethrows, the outer
\* catch (app.ts:274-280)
WsErrorEvents(o, msg) ==
    IF o.hasMessage /\ Includes(o.message, "recursion limit")
    THEN <<WsEvent("error", msg, TooComplex)>>
    ELSE <<WsEvent("error", msg, o.message)>>

WsDoerEvents_toolsFirst(msg, toolMessages) ==
    [k \in 1..toolMessages |-> WsEvent("tool_execution", msg, "")]
    \o <<WsEvent("response:completed", msg, "")>>

\* the final response, then one tool_execution event for each tool message of
\* the two results (app.ts:242-261)
WsDoerEvents(msg, toolMessages) ==
    <<WsEvent("response:completed", msg, "")>>
    \o [k \in 1..toolMessages |-> WsEvent("tool_execution", msg, "")]

RemoveAt(s, i) == SubSeq(s, 1, i - 1) \o SubSeq(s, i + 1, Len(s))

\* wss.on('connection'): the clock is read; it shows the millisecond of its
\* last reading or a later one
WsConnection ==
    /\ driver = "ws"
    /\ Len(conns) < MaxConns
    /\ \E time \in {now, now + 1} \cap (0..MaxTime), randomText \in RandomTexts :
          /\ now' = time
          /\ conns' = Append(conns,
                         [threadId |-> NewThreadId(time, randomText),
                          received |-> 0, handlers |-> <<>>, sent |-> <<>>])
    /\ UNCHANGED <<checkpoints, nonWsVars>>

\* ws.on('message') with a chat message: the acknowledgement is sent and the
\* handler waits in thinkerAgent.invoke
WsChatMessage ==
    /\ driver = "ws"
    /\ \E c \in 1..Len(conns) :
          /\ WsReceived(Len(conns)) < MaxMessages
          /\ conns' = [conns EXCEPT ![c] =
                [WsSend(@, <<WsEvent("response:ack", conns[c].received + 1, "")>>) EXCEPT
                    !.received = @ + 1,
                    !.handlers = Append(@, [msg |-> conns[c].received + 1,
                                            pc |-> "thinker", toolMessages |-> 0])]]
    /\ UNCHANGED <<now, checkpoints, nonWsVars>>

\* ws.on('message') with data that is not JSON: JSON.parse throws, the outer
\* catch sends the error
WsBadMessage ==
    /\ driver = "ws"
    /\ \E c \in 1..Len(conns) :
          /\ WsReceived(Len(conns)) < MaxMessages
          /\ conns' = [conns EXCEPT ![c] =
                [WsSend(@, <<WsEvent("error", conns[c].received + 1, MsgJson)>>)
                    EXCEPT !.received = @ + 1]]
    /\ UNCHANGED <<now, checkpoints, nonWsVars>>

\* thinkerAgent.invoke settles
WsThinker ==
    /\ driver = "ws"
    /\ \E c \in 1..Len(conns) : \E h \in 1..Len(conns[c].handlers) : \E o \in WsOutcomes :
          LET handler == conns[c].handlers[h]
          IN  /\ WsAllowed(o)
              /\ WsSpend(o)
              /\ handler.pc = "thinker"
              /\ checkpoints' =
                    WsCheckpoint(thinkerThreadId(conns[c].threadId), c, handler.msg)
              /\ conns' = [conns EXCEPT ![c] =
                    IF o.throws
                    THEN [WsSend(@, WsErrorEvents(o, handler.msg)) EXCEPT
                             !.handlers = RemoveAt(@, h)]
                    ELSE [WsSend(@, <<WsEvent("investigation", handler.msg, ""),
                                      WsEvent("response:executing", handler.msg, "")>>) EXCEPT
                             !.handlers[h] = [handler EXCEPT
                                 !.pc = "doer", !.toolMessages = o.toolMessages]]]
    /\ UNCHANGED <<now, wsFrame>>

\* doerAgent.invoke settles; the final response and the tool messages of
\* both agents are sent
WsDoer ==
    /\ driver = "ws"
    /\ \E c \in 1..Len(conns) : \E h \in 1..Len(conns[c].handlers) : \E o \in WsOutcomes :
          LET handler == conns[c].handlers[h]
              toolMessages == handler.toolMessages + o.toolMessages
          IN  /\ WsAllowed(o)
              /\ WsSpend(o)
              /\ handler.pc = "doer"
              /\ checkpoints' =
                    WsCheckpoint(doerThreadId(conns[c].threadId), c, handler.msg)
              /\ conns' = [conns EXCEPT ![c] =
                    [WsSend(@, IF o.throws THEN WsErrorEvents(o, handler.msg)
                               ELSE WsDoerEvents(handler.msg, toolMessages))
                       EXCEPT !.handlers = RemoveAt(@, h)]]
    /\ UNCHANGED <<now, wsFrame>>

\* server.listen: no connection yet
InitWs ==
    /\ driver = "ws"
    /\ pc = "serving"
    /\ originalRequest = ""
    /\ userInput = ""
    /\ InitCommon

NextWs ==
    \/ WsConnection
    \/ WsChatMessage
    \/ WsBadMessage
    \/ WsThinker
    \/ WsDoer

vars == <<driver, entries, summaries, added, created, freeCalls, ctlVars, wsVars>>

Init == InitGemini \/ InitBridge \/ InitLangChain

Next ==
    \/ UserExit
    \/ UserStatus
    \/ UserMemory
    \/ UserTask
    \/ Observe
    \/ LoopTest
    \/ AnalystTurn
    \/ ExecutorTurn
    \/ LcAnalystInvoke
    \/ LcAnalystForce
    \/ LcExecutorInvoke
    \/ LcExecutorForce

Spec == Init /\ [][Next]_vars

\* what the controller does without the user: every awaited call settles and
\* the loop goes on
ControllerStep ==
    \/ Observe
    \/ LoopTest
    \/ AnalystTurn
    \/ ExecutorTurn
    \/ LcAnalystInvoke
    \/ LcAnalystForce
    \/ LcExecutorInvoke
    \/ LcExecutorForce

\* weak fairness of the controller's steps, WF_vars(ControllerStep), written
\* out: a controller step is enabled exactly inside a task (InTask), so the
\* controller is either outside a task again and again or keeps stepping
SpecLive ==
    /\ Spec
    /\ \/ []<>(pc \notin {"observe", "loop", "analyst", "analystForce", "executor", "executorForce"})
       \/ []<><<ControllerStep>>_vars

SpecWs == InitWs /\ [][NextWs]_vars

\* the checkpoint threads the agents of connection c are invoked under
ThreadsOf(c) ==
    { thinkerThreadId(conns[c].threadId), doerThreadId(conns[c].threadId) }

\* the connections whose invocations have read or written thread t
UsersOf(t) == { checkpoints[t][i].conn : i \in 1..Len(checkpoints[t]) }

\* C20: in the WebSocket server the thinker and doer thread identifiers of a
\* connection differ from each other and from those of every other
\* connection, and no checkpoint thread is read or written by the agent
\* invocations of two connections.
C20_ThreadsNotShared ==
    /\ \A c \in 1..Len(conns) :
          thinkerThreadId(conns[c].threadId) # doerThreadId(conns[c].threadId)
    /\ \A c1, c2 \in 1..Len(conns) :
          c1 # c2 => ThreadsOf(c1) \cap ThreadsOf(c2) = {}
    /\ \A t \in DOMAIN checkpoints : Cardinality(UsersOf(t)) <= 1

\* the error events the clients have been sent
WsErrorTexts ==
    UNION { { conns[c].sent[i].text :
                i \in { j \in 1..Len(conns[c].sent) : conns[c].sent[j].kind = "error" } } :
            c \in 1..Len(conns) }

\* C21: a failure of an agent invocation with the framework's recursion-limit
\* error is reported with the specific message, never with the generic error
\* text that repeats the message of the error, in the LangChain CLI driver
\* and in the WebSocket server alike.
C21_RecursionLimitSpecific ==
    /\ driver = "langchain" => output # IterationError \o MsgRecursion
    /\ driver = "ws" => MsgRecursion \notin WsErrorTexts

----------------------------------------------------------------------------
(* A harness that drives one AgentMemory with arbitrary calls. *)

MaxCalls == 11       \* addEntry calls between two clear() calls
MaxFree == 2         \* addEntry calls whose arguments differ from the previous call's
MemMaxIter == 3      \* iteration arguments are 0..MemMaxIter

RECURSIVE Repeat(_, _)
Repeat(s, n) ==
    IF n = 0 THEN ""
    ELSE LET half == Repeat(s, n \div 2)
         IN  IF n % 2 = 0 THEN half \o half ELSE half \o half \o s

LongResult == Repeat("x", ResultBudget + 5)

\* texts.join(separator)
RECURSIVE Join(_, _)
Join(texts, separator) ==
    IF Len(texts) = 0 THEN ""
    ELSE IF Len(texts) = 1 THEN texts[1]
    ELSE texts[1] \o separator \o Join(SubSeq(texts, 2, Len(texts)), separator)

Arrow == " -> "

\* `${entry.agent}: ${entry.action} -> ${entry.result.substring(0, n)}`
PartText(p) == p.agent \o ColonSpace \o p.action \o Arrow \o p.result

\* `[Iter ${currentIteration-2}-${currentIteration}]: ${summary}`
SummaryText(line) ==
    "[Iter " \o NumberText(line.from) \o "-" \o NumberText(line.to) \o "]: "
    \o Join([j \in 1..Len(line.parts) |-> PartText(line.parts[j])], " | ")

\* the string getRecentContext returns, from its two blocks
ContextText(context) ==
    (IF Len(context.summaries) > 0
     THEN "\nSUMMARIES:\n"
          \o Join([j \in 1..Len(context.summaries) |-> SummaryText(context.summaries[j])],
                  "\n")
          \o "\n"
     ELSE "")
    \o (IF Len(context.recent) > 0
        THEN "\nRECENT:\n"
             \o Join([j \in 1..Len(context.recent) |->
                         PartText(context.recent[j]) \o Ellipsis], "\n")
        ELSE "")

\* The longest context of a memory whose actions are tool calls with a path
\* argument: two summaries of as many parts as createSummary can see and four
\* entries, every result filling its budget.
PlainEntry ==
    NewEntry(GeminiMaxIterations, "Executor", CallSignature(CallCreate), LongResult)

PlainSummary ==
    [from |-> GeminiMaxIterations - 2, to |-> GeminiMaxIterations,
     parts |-> [j \in 1..(maxEntries + 1) |-> SummaryPart(PlainEntry)]]

ContextLimit ==
    Len(ContextText([summaries |-> [j \in 1..ContextSummaries |-> PlainSummary],
                     recent |-> [j \in 1..ContextEntries |-> ContextLine(PlainEntry)]]))

\* create_file_or_folder called with the content of the file among its
\* arguments
ArgsContent ==
    "{\"path\":\"notes.txt\",\"content\":\"" \o Repeat("x", 2 * ResultBudget) \o "\"}"

CallCreateContent ==
    Call(create_file_or_folder, ArgsContent, TRUE, ResCreated, TRUE, TxtCreated)

MemPayloads ==
    { [agent |-> "Analyst", action |-> Thinking, result |-> TxtCreate],
      [agent |-> "Executor", action |-> CallSignature(CallCreateContent),
       result |-> LongResult] }

InitMem ==
    /\ driver = "memory"
    /\ entries = <<>>
    /\ summaries = <<>>
    /\ added = <<>>
    /\ created = <<>>
    /\ freeCalls = 0
    /\ pc = "harness"
    /\ count = 0
    /\ originalRequest = ""
    /\ userInput = ""
    /\ history = <<>>
    /\ shouldContinue = TRUE
    /\ analystResult = NoResult
    /\ output = "banner"
    /\ lastRun = NoRun
    /\ deviations = 0
    /\ analystTurns = 0
    /\ executorTurns = 0
    /\ decided = {}
    /\ taskStatus = "in-progress"
    /\ lastTurn = NoTurn
    /\ WsIdle

MemAddEntry ==
    /\ driver = "memory"
    /\ Len(added) < MaxCalls
    /\ freeCalls < MaxFree
    /\ \E iteration \in 0..MemMaxIter, p \in MemPayloads :
          SetMem(addEntry(Mem, iteration, p.agent, p.action, p.result))
    /\ freeCalls' = freeCalls + 1
    /\ UNCHANGED <<driver, wsVars, ctlVars>>

\* the same call again (an agent repeating a tool call within one iteration)
MemAddEntryAgain ==
    /\ driver = "memory"
    /\ Len(added) > 0
    /\ Len(added) < MaxCalls
    /\ LET e == Last(added)
       IN  SetMem(addEntry(Mem, e.iteration, e.agent, e.action, e.result))
    /\ UNCHANGED <<driver, wsVars, freeCalls, ctlVars>>

MemClear ==
    /\ driver = "memory"
    /\ Len(added) > 0
    /\ SetMem(clear(Mem))
    /\ UNCHANGED <<driver, wsVars, freeCalls, ctlVars>>

NextMem == MemAddEntry \/ MemAddEntryAgain \/ MemClear

SpecMem == InitMem /\ [][NextMem]_vars

----------------------------------------------------------------------------
(* The text heuristics applied to texts of an iteration: the analyst's and  *)
(* the executor's message are drawn, then one of the functions is called    *)

TxtTaskCompleted == "Task completed"

HeurTexts == LcContents \cup { TxtCreate, TxtDone, TxtOk, TxtTaskCompleted }

InitHeur ==
    /\ driver = "heuristics"
    /\ pc = "texts"
    /\ originalRequest = ""
    /\ userInput = ""
    /\ \E a \in HeurTexts, e \in HeurTexts :
          history = << [agent |-> "analyst", message |-> a],
                       [agent |-> "executor", message |-> e] >>
    /\ entries = <<>>
    /\ summaries = <<>>
    /\ added = <<>>
    /\ created = <<>>
    /\ freeCalls = 0
    /\ count = 1
    /\ shouldContinue = TRUE
    /\ analystResult = NoResult
    /\ output = "banner"
    /\ lastRun = NoRun
    /\ deviations = 0
    /\ analystTurns = 0
    /\ executorTurns = 0
    /\ decided = {}
    /\ taskStatus = "in-progress"
    /\ lastTurn = NoTurn
    /\ WsIdle

heurFrame == <<driver, wsVars, memVars, freeCalls, count, originalRequest, userInput,
               history, analystResult, output, lastRun, deviations, analystTurns,
               executorTurns, taskStatus>>

\* shouldContinueIterating(analystMsg, executorMsg) of gemini-agents.ts
HeurContinue ==
    /\ driver = "heuristics"
    /\ pc = "texts"
    /\ LET go == shouldContinueIterating(history[1].message, history[2].message)
       IN  /\ shouldContinue' = go
           /\ decided' = {<<history[1].message, history[2].message, go>>}
    /\ pc' = "stopBiased"
    /\ UNCHANGED <<heurFrame, lastTurn>>

\* shouldContinueIterating(analystMsg, executorMsg) of index.ts
HeurContinueLC ==
    /\ driver = "heuristics"
    /\ pc = "texts"
    /\ LET go == shouldContinueIteratingLC(history[1].message, history[2].message)
       IN  /\ shouldContinue' = go
           /\ decided' = {<<history[1].message, history[2].message, go>>}
    /\ pc' = "continueBiased"
    /\ UNCHANGED <<heurFrame, lastTurn>>

\* shouldHaveUsedTools(agentResponse, agentType) on the message of either agent
HeurClassify ==
    /\ driver = "heuristics"
    /\ pc = "texts"
    /\ \E turn \in 1..2 :
          LET agentType == history[turn].agent
              agentResponse == history[turn].message
          IN  lastTurn' = [role |-> agentType, content |-> agentResponse,
                           usedTools |-> FALSE,
                           forced |-> shouldHaveUsedTools(agentResponse, agentType),
                           forcedContent |-> ""]
    /\ pc' = "classified"
    /\ UNCHANGED <<heurFrame, shouldContinue, decided>>

NextHeur == HeurContinue \/ HeurContinueLC \/ HeurClassify

SpecHeur == InitHeur /\ [][NextHeur]_vars

----------------------------------------------------------------------------
(* Properties of AgentMemory *)

\* C1: after every addEntry call at most maxEntries (10) entries are stored,
\* and they are exactly the most recently added ones, in insertion order.
C1_BoundedFifo ==
    /\ Len(entries) <= maxEntries
    /\ entries = LastN(added, maxEntries)

\* more than ten entries were added and the oldest, different from the
\* newest, has been evicted
C1_Witness ==
    /\ Len(added) > maxEntries
    /\ added[1] # Last(added)
    /\ entries[1] # added[1]

\* C4: for every k, every line of the RECENT block of getRecentContext(k)
\* renders a stored entry with iteration < k, and the block has no more
\* lines than there are such entries.
C4_RecentBelowK ==
    \A k \in 0..(MemMaxIter + 1) :
        LET recent == getRecentContext(Mem, k).recent
            below == SelectSeq(entries, LAMBDA e : e.iteration < k)
        IN  /\ Len(recent) <= Len(below)
            /\ \A j \in 1..Len(recent) :
                  \E i \in 1..Len(below) : recent[j] = ContextLine(below[i])

\* some k has a non-empty RECENT block while entries with iteration >= k are stored
C4_Witness ==
    \E k \in 0..(MemMaxIter + 1) :
        /\ Len(getRecentContext(Mem, k).recent) > 0
        /\ \E i \in 1..Len(entries) : entries[i].iteration >= k

\* C10: an addEntry call with iteration i (i > 0, i mod 3 = 0) creates a
\* summary labelled exactly [i-2, i], built from exactly the entries held at
\* that moment (the ten retained ones and the new one) whose iteration is in
\* that range; createSummary on a memory with no entry in the range creates
\* nothing.
C10_SummaryRange ==
    /\ (Len(added) > 0 /\ Last(added).iteration > 0 /\ Last(added).iteration % 3 = 0) =>
          LET i == Last(added).iteration
              held == LastN(added, maxEntries + 1)
              inRange == SelectSeq(held, LAMBDA e : e.iteration \in (i - 2)..i)
          IN  /\ Len(created) > 0
              /\ Last(created).from = i - 2
              /\ Last(created).to = i
              /\ Last(created).parts = [j \in 1..Len(inRange) |->
                    [agent |-> inRange[j].agent, action |-> inRange[j].action,
                     result |-> Take(inRange[j].result, 80)]]
              /\ Last(summaries) = Last(created)
    /\ \A i \in 1..(MemMaxIter + 3) :
          (\A j \in 1..Len(entries) : entries[j].iteration \notin (i - 2)..i)
              => createSummary(Mem, i) = Mem

\* the last call was made at iteration 3, its summary has several parts, and
\* an entry outside the range was held too
C10_Witness ==
    /\ Len(added) > 1
    /\ Last(added).iteration = 3
    /\ Len(created) > 0
    /\ Len(Last(created).parts) > 1
    /\ \E j \in 1..Len(entries) : entries[j].iteration < 1

----------------------------------------------------------------------------
(* Properties of the controllers *)

SummariesFor(b) == { i \in 1..Len(created) : created[i].to = b }

\* C2: in a run of the memory-augmented controller exactly one summary is
\* created per completed block of 3 iterations (never more than one per
\* block, one once the block's last iteration has completed), and none is
\* created by an addEntry at iteration 0.
C2_OncePerBlock ==
    driver \in {"gemini", "bridge"} =>
        /\ \A i \in 1..Len(created) : created[i].to # 0
        /\ \A b \in {SummaryPeriod, 2 * SummaryPeriod} :
              /\ Cardinality(SummariesFor(b)) <= 1
              /\ (pc = "loop" /\ count = b /\ lastRun.role = "executor" /\ ~lastRun.threw)
                    => Cardinality(SummariesFor(b)) = 1

\* C3: the iteration ranges of the stored summaries are pairwise
\* non-overlapping and in strictly increasing order.
C3_SummariesIncreasing ==
    \A i \in 1..Len(summaries) : \A j \in 1..Len(summaries) :
        i < j => summaries[i].to < summaries[j].from

\* C5: for a single task at most maxIterations analyst turns and executor
\* turns are executed: 6 in the Gemini drivers, 10 in the LangChain driver.
C5_AtMostMaxPairs ==
    /\ driver \in {"gemini", "bridge"} =>
          analystTurns <= GeminiMaxIterations /\ executorTurns <= GeminiMaxIterations
    /\ driver = "langchain" =>
          analystTurns <= LangChainMaxIterations /\ executorTurns <= LangChainMaxIterations

\* a task ran the maximum number of pairs, the heuristic said continue after
\* the last one, and the loop was left
C5_Witness ==
    /\ pc \in {"await", "finished"}
    /\ shouldContinue
    /\ analystTurns = maxIterations
    /\ executorTurns = maxIterations

\* whether the lowercased combined text of a decision contains the pattern
CombinedIncludes(pattern) ==
    [a \in Responses |-> [e \in Responses |-> Includes(ToLower(a \o " " \o e), pattern)]]

HasTaskCompleted == CombinedIncludes("task completed")

HasCreate == CombinedIncludes("create")

HasStopPattern ==
    [a \in Responses |-> [e \in Responses |->
        SomeIncluded(stopPatterns, ToLower(a \o " " \o e))]]

ForceInvoked ==
    lastTurn.forced \/ pc \in {"analystForce", "executorForce"}

\* C7 as amended: in the LangChain controller forceToolUsage is invoked for
\* a turn if and only if no message of the turn's result carries tool calls
\* and shouldHaveUsedTools(responseText, role) is true.
C7_ForcedIffNoToolsAndClassifier ==
    lastTurn.role # "none" =>
        (ForceInvoked <=>
            (~lastTurn.usedTools /\ ShouldHaveUsedTable[lastTurn.role][lastTurn.content]))

\* an executor turn that described an action in prose was forced, and its
\* forced response was recorded
C7_Witness ==
    /\ lastTurn.role = "executor"
    /\ lastTurn.forced
    /\ ~lastTurn.usedTools
    /\ pc = "loop"

\* C7 as stated: forceToolUsage is invoked if and only if
\* shouldHaveUsedTools(responseText, role) is true for the turn's response.
C7_ForcedIffClassifier ==
    lastTurn.role # "none" =>
        (ForceInvoked <=> ShouldHaveUsedTable[lastTurn.role][lastTurn.content])

\* C8: when iteration 1 has ended below the cap and the combined text has the
\* continue keyword "create" and no stop pattern, the next step of the
\* controller starts iteration 2 with the analyst.
C8_ProceedsToIteration2 ==
    [][ ( /\ driver \in {"gemini", "bridge"}
          /\ pc = "loop"
          /\ count = 1
          /\ lastRun.role = "executor"
          /\ lastRun.iteration = 1
          /\ ~lastRun.threw
          /\ HasCreate[analystResult.response][lastRun.response]
          /\ ~HasStopPattern[analystResult.response][lastRun.response] )
        => (pc' = "analyst" /\ count' = 2) ]_vars

\* the executor called the create tool in iteration 1, and the analyst of
\* iteration 2 has run
C8_Witness ==
    /\ driver = "gemini"
    /\ count = 2
    /\ pc = "executor"
    /\ lastRun.role = "analyst"
    /\ lastRun.iteration = 2
    /\ Len(history) = 3
    /\ history[2].agent = "executor"
    /\ \E i \in 1..Len(history[2].toolsUsed) :
          history[2].toolsUsed[i] = create_file_or_folder

QuotaFailure(o) ==
    o.fails /\ o.hasMessage /\ (Includes(o.message, "429") \/ Includes(o.message, "quota"))

\* C9: a run whose model call fails with a quota/429 error returns a result
\* whose response names the quota and whose toolsUsed is empty, and the
\* controller goes on: after the analyst's failure the executor is next.
C9_QuotaFailureReturns ==
    (lastRun.role # "none" /\ QuotaFailure(lastRun.outcome)) =>
        /\ ~lastRun.threw
        /\ Includes(ToLower(lastRun.response), "quota")
        /\ lastRun.toolsUsed = <<>>
        /\ pc # "crashed"
        /\ lastRun.role = "analyst" => pc = "executor"
        /\ lastRun.role = "observe" => pc \in {"loop", "analyst"}

\* the analyst's model call failed with 429 and the executor is invoked next
C9_Witness ==
    /\ lastRun.role = "analyst"
    /\ lastRun.outcome = FailOutcome(TRUE, Msg429)
    /\ pc = "executor"

----------------------------------------------------------------------------
(* Properties of SimpleGeminiAgent.run and of tool dispatch *)

\* the agent whose run lastRun records
LastRunAgent == IF lastRun.role = "executor" THEN "Executor" ELSE "Analyst"

\* C11: an agent executes only tools of its granted subset: every tool that
\* a run of the analyst (or of the executor) invoked is granted to it.
C11_ExecutesGrantedOnly ==
    lastRun.role # "none" =>
        \A i \in 1..Len(lastRun.executed) :
            lastRun.executed[i] \in GrantedTools(LastRunAgent)

\* C12: every name in the toolsUsed of a returned AgentResult is in the tool
\* subset granted to the agent.
C12_ToolsUsedGranted ==
    (lastRun.role # "none" /\ ~lastRun.threw) =>
        \A i \in 1..Len(lastRun.toolsUsed) :
            lastRun.toolsUsed[i] \in GrantedTools(LastRunAgent)

\* C13: no returned AgentResult has an empty or whitespace-only response.
C13_ResponseNeverBlank ==
    (lastRun.role # "none" /\ ~lastRun.threw) => Trim(lastRun.response) # ""

\* C14: a model-call failure that is not a quota failure, with or without a
\* message on the thrown value, makes run return (not raise) a result whose
\* response carries the error message and whose toolsUsed is empty.
C14_OtherFailureReturns ==
    (lastRun.role # "none" /\ lastRun.outcome.fails /\ ~QuotaFailure(lastRun.outcome)) =>
        /\ ~lastRun.threw
        /\ Includes(lastRun.response, lastRun.outcome.message)
        /\ lastRun.toolsUsed = <<>>

----------------------------------------------------------------------------
(* Properties of the session loops *)

\* iterations in which the analyst turn and the executor turn both completed:
\* each records the executor's response in the history
CompletedPairs ==
    Len(SelectSeq(history, LAMBDA h : h.agent = "executor"))

\* C15: the iteration counter equals the number of completed (analyst,
\* executor) pairs, checked whenever no iteration is under way, also after a
\* turn threw or the analyst asked for clarification.
C15_CountIsCompletedPairs ==
    pc \in {"await", "finished", "closed"} => count = CompletedPairs

\* C16: in the CLI drivers no error ends the session: the loop is never left
\* through an exception.
C16_SessionSurvivesErrors ==
    driver \in {"gemini", "langchain"} => pc # "crashed"

\* C17: every task request of a session of the memory-augmented driver
\* starts with AgentMemory.clear(): when the task starts, before its first
\* agent call, the memory holds no entries and no summaries.
C17_ClearAtEveryTask ==
    [][ ( /\ driver = "gemini"
          /\ pc = "await"
          /\ pc' \in {"observe", "loop"}
          /\ ~lastRun.threw )
        => (entries' = <<>> /\ summaries' = <<>>) ]_vars

\* C18: while the task of an input line runs, originalRequest is that line
\* and the analyst's prompt carries the line's text.
C18_EveryLineIsNewTask ==
    (driver \in {"gemini", "langchain"} /\ pc = "analyst") =>
        /\ originalRequest = userInput
        /\ \/ AnalystPrompt.request = userInput
           \/ AnalystPrompt.hasCurrentInput /\ AnalystPrompt.currentInput = userInput

\* C19: tool dispatch returns a string for every call the model requests: the
\* tool's own text when the tool returns, a not-found text for a name that
\* is not registered, and an error text carrying the message when the tool
\* throws; the run records that text and returns.
C19_DispatchReturnsText ==
    (lastRun.role # "none" /\ ~lastRun.outcome.fails) =>
        /\ ~lastRun.threw
        /\ \A k \in 1..Len(lastRun.outcome.calls) :
              LET call == lastRun.outcome.calls[k]
                  functionResult == executeTool(call.name, call)
              IN  /\ functionResult \in STRING
                  /\ call.name \notin vscodeTools =>
                        functionResult = "Tool " \o call.name \o " not found!"
                  /\ (call.name \in vscodeTools /\ call.toolOk) =>
                        functionResult = call.toolText
                  /\ (call.name \in vscodeTools /\ ~call.toolOk) =>
                        functionResult =
                            "Error executing " \o call.name \o ": " \o call.toolText
                  /\ \E i \in 1..Len(added) :
                        /\ added[i].action = CallSignature(call)
                        /\ added[i].result = Take(functionResult, ResultBudget)

\* an executor run that named an unregistered tool returned, with the
\* not-found text recorded as the call's result
C19_Witness ==
    /\ lastRun.role = "executor"
    /\ ~lastRun.threw
    /\ lastRun.outcome.calls = <<CallBogus>>
    /\ Last(added).action = CallSignature(CallBogus)
    /\ Last(added).result = "Tool bogus_tool not found!"

\* the positions at which an agent is about to be called
AgentCallDue == pc \in {"observe", "analyst", "analystForce", "executor", "executorForce"}

\* C22: when the loop test finds the iteration count at the cap while the last
\* continuation decision is continue, the controller leaves the inner loop,
\* reports the reached-maximum-iterations status and is at no agent call.
C22_CapEndsTask ==
    [][ (pc = "loop" /\ shouldContinue /\ count >= maxIterations)
          => (/\ pc' \in {"await", "finished"}
              /\ output' = "maxIterations"
              /\ ~AgentCallDue'
              /\ count' = count
              /\ analystTurns' = analystTurns
              /\ executorTurns' = executorTurns) ]_vars

C22_Witness ==
    /\ pc \in {"await", "finished"}
    /\ output = "maxIterations"
    /\ shouldContinue
    /\ count = maxIterations
    /\ executorTurns > 0

\* C23: the string getRecentContext returns is never longer than a fixed
\* constant, whatever the lengths of the actions and results that were added.
C23_ContextBounded ==
    driver = "memory" =>
        \A k \in 0..(MemMaxIter + 1) :
            Len(ContextText(getRecentContext(Mem, k))) <= ContextLimit

----------------------------------------------------------------------------
(* Properties of the text heuristics *)

\* whether one of the phrases occurs in the lowercased concatenation of the
\* two texts
Occurs(phrases, analystMsg, executorMsg) ==
    \E phrase \in phrases : Includes(ToLower(analystMsg \o " " \o executorMsg), phrase)

StopPhrases ==
    { "task completed", "all files created", "calculator complete", "finished", "done",
      "quota limit" }

ContinuePhrases ==
    { "next step", "continue", "create", "add", "need to", "should", "html", "javascript",
      "calculator" }

\* C24: the stop-biased shouldContinueIterating returns true if and only if
\* no stop pattern occurs in the lowercased concatenation of the two texts and
\* at least one continue pattern occurs; a stop pattern wins over a continue
\* pattern, and a text matching neither set gives stop.
C24_DecisionTable ==
    pc = "stopBiased" =>
        \A d \in decided :
            /\ d[3] <=> (~Occurs(StopPhrases, d[1], d[2]) /\ Occurs(ContinuePhrases, d[1], d[2]))
            /\ Occurs(StopPhrases, d[1], d[2]) => ~d[3]
            /\ (~Occurs(StopPhrases, d[1], d[2]) /\ ~Occurs(ContinuePhrases, d[1], d[2]))
                  => ~d[3]

\* two texts with neither a stop nor a continue pattern were decided as stop
C24_Witness ==
    /\ pc = "stopBiased"
    /\ decided = {<<TxtOk, LcPlain, FALSE>>}
    /\ ~shouldContinue

DefiniteStopPhrases ==
    { "task is completely finished", "everything is done", "no more work needed",
      "waiting for user input", "need clarification from user", "ask the user",
      "user needs to decide" }

\* the positions of the LangChain driver at which an agent is invoked
LcCallStates == {"analyst", "analystForce", "executor", "executorForce"}

\* a step of the LangChain driver in which shouldContinueIterating decides:
\* the decision is stop exactly when a definite-stop phrase occurs
LcDecisionStep ==
    (driver = "langchain" /\ pc \in {"executor", "executorForce"} /\ pc' = "loop")
        => (shouldContinue' <=>
               ~Occurs(DefiniteStopPhrases, analystResult.response, Last(history').message))

\* a step that ends a task of the LangChain driver whose texts held no
\* definite-stop phrase and did not trigger the ask-user check
LcTaskEndsContinuing ==
    driver = "langchain" /\ pc # "await" /\ pc' = "await" /\ shouldContinue'

ActionVerbs ==
    { "create", "write", "add", "modify", "edit", "update", "run", "execute", "install",
      "build", "start", "check", "read", "view", "list", "search" }

InvestigationVerbs ==
    { "check", "examine", "look at", "read", "view", "list", "search", "find" }

HasAny(phrases, text) == \E phrase \in phrases : Includes(text, phrase)

\* C26: on the lowercased text, shouldHaveUsedTools is true for the executor
\* iff the text has an action verb and one of "tool", "file", "command" and
\* neither "tool call" nor "executed"; for the analyst iff it has an
\* investigation verb and neither "tool call" nor "executed". The executor
\* text "I will create the file now" gives true, "I executed
\* create_file_or_folder and it succeeded" gives false.
C26_ClassifierTable ==
    pc = "classified" =>
        LET text == ToLower(lastTurn.content)
            evidence == Includes(text, "tool call") \/ Includes(text, "executed")
        IN  /\ lastTurn.role = "executor" =>
                  (lastTurn.forced <=>
                      /\ HasAny(ActionVerbs, text)
                      /\ HasAny({"tool", "file", "command"}, text)
                      /\ ~evidence)
            /\ lastTurn.role = "analyst" =>
                  (lastTurn.forced <=> (HasAny(InvestigationVerbs, text) /\ ~evidence))
            /\ (lastTurn.role = "executor"
                  /\ lastTurn.content = "I will create the file now") => lastTurn.forced
            /\ (lastTurn.role = "executor"
                  /\ lastTurn.content = "I executed create_file_or_folder and it succeeded")
                  => ~lastTurn.forced

\* the executor text that reports an executed tool was classified
C26_Witness ==
    /\ pc = "classified"
    /\ lastTurn.role = "executor"
    /\ lastTurn.content = "I executed create_file_or_folder and it succeeded"
    /\ ~lastTurn.forced

----------------------------------------------------------------------------
(* More properties of AgentMemory *)

Min(a, b) == IF a < b THEN a ELSE b

\* the positions of the stored entries with iteration < k
Below(k) == { i \in 1..Len(entries) : entries[i].iteration < k }

\* after addEntry(3, "Analyst", "thinking", "ok") and addEntry(3, "Executor",
\* "list_files({})", "a.txt") the context of iteration 4 is the block of the
\* summaries followed by the block of the entries
ContextOfTwoCalls ==
    LET mem == addEntry(addEntry(EmptyMem, 3, "Analyst", "thinking", "ok"),
                        3, "Executor", "list_files({})", "a.txt")
    IN  ContextText(getRecentContext(mem, 4)) =
            "\nSUMMARIES:\n"
            \o "[Iter 1-3]: Analyst: thinking -> ok\n"
            \o "[Iter 1-3]: Analyst: thinking -> ok | Executor: list_files({}) -> a.txt\n"
            \o "\nRECENT:\n"
            \o "Analyst: thinking -> ok...\n"
            \o "Executor: list_files({}) -> a.txt..."

\* C27: getRecentContext(k) returns at most the last 2 stored summaries, in
\* the order of their creation, followed by at most the last 4 stored entries
\* with iteration < k, in the order of their insertion, and the empty string
\* when no entry and no summary is stored.
C27_ContextShape ==
    driver = "memory" =>
        \A k \in 0..(MemMaxIter + 1) :
            LET context == getRecentContext(Mem, k)
                s == Len(context.summaries)
                r == Len(context.recent)
                below == Below(k)
                \* the last four of them, and the n-th of these in insertion order
                last == { i \in below : Cardinality({ j \in below : j > i }) < 4 }
                nth == [n \in 1..Cardinality(last) |->
                           CHOOSE i \in last : Cardinality({ j \in last : j < i }) = n - 1]
            IN  /\ s = Min(2, Len(summaries))
                /\ \A j \in 1..s : context.summaries[j] = summaries[Len(summaries) - s + j]
                /\ r = Min(4, Cardinality(below))
                /\ \A j \in 1..r :
                      /\ context.recent[j].agent = entries[nth[j]].agent
                      /\ context.recent[j].action = entries[nth[j]].action
                      /\ context.recent[j].result =
                            SubSeq(entries[nth[j]].result, 1, Len(context.recent[j].result))
                /\ (entries = <<>> /\ summaries = <<>>) => ContextText(context) = ""
                /\ ContextOfTwoCalls

\* three summaries and more than four entries below the iteration are
\* stored, of which the context shows two and four
C27_Witness ==
    /\ driver = "memory"
    /\ Len(summaries) = 3
    /\ Cardinality(Below(MemMaxIter + 1)) > 4
    /\ Len(getRecentContext(Mem, MemMaxIter + 1).summaries) = 2
    /\ Len(getRecentContext(Mem, MemMaxIter + 1).recent) = 4

----------------------------------------------------------------------------
(* More properties of the LangChain CLI driver *)

\* C28: when a turn was forced, the forced response is what the history entry
\* of the turn holds, what the executor of the same iteration is given as the
\* analyst's guidance, and what shouldContinueIterating decides on.
C28_ForcedReplacesOriginal ==
    (driver = "langchain" /\ lastTurn.forced) =>
        /\ (lastTurn.role = "analyst" /\ pc = "executor") =>
              /\ Last(history) = [agent |-> "analyst", message |-> lastTurn.forcedContent]
              /\ analystResult.response = lastTurn.forcedContent
              /\ buildExecutorContext.guidance = lastTurn.forcedContent
        /\ (lastTurn.role = "executor" /\ pc = "loop" /\ executorTurns > 0) =>
              /\ Last(history) = [agent |-> "executor", message |-> lastTurn.forcedContent]
              /\ shouldContinue =
                    ~Occurs(DefiniteStopPhrases, analystResult.response,
                            lastTurn.forcedContent)

\* an executor that described an action was forced and answered with another
\* text, which the history holds
C28_Witness ==
    /\ driver = "langchain"
    /\ lastTurn.role = "executor"
    /\ lastTurn.forced
    /\ pc = "loop"
    /\ executorTurns > 0
    /\ lastTurn.content = LcCreateFile
    /\ lastTurn.forcedContent = LcPlain
    /\ Last(history).message = LcPlain

----------------------------------------------------------------------------
(* Termination of the iteration loop *)

\* the controller is inside a task
InTask == pc \in {"observe", "loop", "analyst", "analystForce", "executor", "executorForce"}

\* a step in which an awaited agent call throws
CallThrew ==
    /\ AgentCallDue
    /\ pc' \in {"await", "crashed"}
    /\ \/ output' \in {"mainLoopError", "unhandled", "recursionLimit"}
       \/ Includes(output', IterationError)

\* C29: with every call settling, a task's iteration loop terminates and the
\* controller is again at the prompt (or, in the bridge, has finished); the
\* loop is left, other than by a call that throws, exactly when the decision
\* is stop or the analyst asked the user (shouldContinue is false) or the
\* iteration count is at the cap; the session ends on the exit command only,
\* or with a call that throws.
C29_LoopTerminates ==
    /\ []<>~InTask
    /\ [][ /\ pc = "loop" => (~InTask' <=> (~shouldContinue \/ count >= maxIterations))
           /\ (InTask /\ ~InTask') =>
                 \/ pc = "loop" /\ pc' \in {"await", "finished"}
                 \/ CallThrew
           /\ (pc # "closed" /\ pc' = "closed") => (pc = "await" /\ output' = "bye")
           /\ (pc # "crashed" /\ pc' = "crashed") => CallThrew ]_vars

\* a task was left on a stop decision below the cap
C29_Witness ==
    /\ driver \in {"gemini", "langchain"}
    /\ pc = "await"
    /\ ~shouldContinue
    /\ executorTurns > 0
    /\ count < maxIterations
    /\ output \in {"taskCompleted", "clarification"} \/ driver = "gemini"

----------------------------------------------------------------------------
(* Order of the events sent for one message *)

\* the kinds of the events sent on connection c for its message number m
KindsOf(c, m) ==
    LET events == SelectSeq(conns[c].sent, LAMBDA e : e.msg = m)
    IN  [i \in 1..Len(events) |-> events[i].kind]

\* the handler of message m of connection c still waits for an agent
InFlight(c, m) == \E h \in 1..Len(conns[c].handlers) : conns[c].handlers[h].msg = m

\* the events of a chat message: acknowledgement first and once, the
\* investigation before the final response, tool executions after it, one
\* terminal event once the handler is through and none before
ChatShape(kinds, inFlight) ==
    LET terminals == { i \in 1..Len(kinds) : kinds[i] \in {"response:completed", "error"} }
    IN  /\ Len(kinds) > 0
        /\ kinds[1] = "response:ack"
        /\ \A i \in 2..Len(kinds) : kinds[i] # "response:ack"
        /\ \A i \in 1..Len(kinds) :
              /\ kinds[i] = "response:completed" =>
                    \E j \in 1..(i - 1) : kinds[j] = "investigation"
              /\ kinds[i] = "tool_execution" =>
                    \E j \in 1..(i - 1) : kinds[j] = "response:completed"
        /\ Cardinality(terminals) = IF inFlight THEN 0 ELSE 1

\* C30: for every chat message the server received, the acknowledgement is
\* the first event, an investigation event precedes the final response, tool
\* execution events come only after the final response, and the message is
\* answered by exactly one terminal event, the final response or an error.
\* A message that is not JSON is no chat message: its only event is the error
\* of JSON.parse.
C30_EventOrder ==
    driver = "ws" =>
        \A c \in 1..Len(conns) : \A m \in 1..conns[c].received :
            LET kinds == KindsOf(c, m)
            IN  \/ /\ kinds = <<"error">>
                   /\ ~InFlight(c, m)
                   /\ \E i \in 1..Len(conns[c].sent) :
                         conns[c].sent[i] = WsEvent("error", m, MsgJson)
                \/ ChatShape(kinds, InFlight(c, m))

\* a chat message answered with the final response and a tool execution event
C30_Witness ==
    /\ driver = "ws"
    /\ \E c \in 1..Len(conns) : \E m \in 1..conns[c].received :
          KindsOf(c, m) = <<"response:ack", "investigation", "response:executing",
                            "response:completed", "tool_execution">>

----------------------------------------------------------------------------
(* The response of a run with tool calls *)

\* the continuation texts of the calls whose follow-up message was answered,
\* one after the other
RECURSIVE ContinuationText(_, _)
ContinuationText(calls, k) ==
    IF k > Len(calls) THEN ""
    ELSE (IF calls[k].fuOk THEN calls[k].fuText ELSE "") \o ContinuationText(calls, k + 1)

\* C31: a run in which the model requested tool calls executes them in the
\* order of the request, and its response holds the continuation texts got
\* after the tool results, in that order: text accumulated from earlier calls
\* is kept when a later follow-up message fails.
C31_ResponseAccumulates ==
    (lastRun.role # "none" /\ ~lastRun.outcome.fails /\ Len(lastRun.outcome.calls) > 0) =>
        LET calls == lastRun.outcome.calls
        IN  /\ lastRun.toolsUsed = [k \in 1..Len(calls) |-> calls[k].name]
            /\ Includes(lastRun.response, ContinuationText(calls, 1))

----------------------------------------------------------------------------
(* The entries a run records *)

\* the entries a run of the given record is to append
EntriesOfRun(run) ==
    LET agent == IF run.role = "executor" THEN "Executor" ELSE "Analyst"
        calls == run.outcome.calls
    IN  IF run.outcome.fails THEN <<>>
        ELSE IF Len(calls) > 0
        THEN [k \in 1..Len(calls) |->
                 [iteration |-> run.iteration, agent |-> agent,
                  action |-> calls[k].name \o "(" \o calls[k].args \o ")",
                  result |-> Take(executeTool(calls[k].name, calls[k]), ResultBudget)]]
        ELSE <<[iteration |-> run.iteration, agent |-> agent, action |-> Thinking,
                result |-> Take(run.response, ResultBudget)]>>

\* C32: a run of an agent turn at iteration i appends one entry tagged i for
\* each tool call executed, holding the call's signature and its result, one
\* entry with action "thinking" when the model requested no tool, and no entry
\* when the model call fails.
C32_EntriesPerRun ==
    [][ (driver \in {"gemini", "bridge"} /\ pc \in {"analyst", "executor"}) =>
            /\ lastRun'.iteration = count
            /\ added' = added \o EntriesOfRun(lastRun') ]_vars

\* runs of the three kinds have happened at an iteration of a task
C32_Witness ==
    /\ driver \in {"gemini", "bridge"}
    /\ lastRun.role = "executor"
    /\ lastRun.iteration > 0
    /\ Len(lastRun.outcome.calls) = 2
    /\ Len(added) >= 4
    /\ added[Len(added)].iteration = lastRun.iteration
    /\ added[Len(added) - 2].action = Thinking

----------------------------------------------------------------------------
(* The store of summaries *)

\* C33: whatever addEntry calls are made, at most three summaries are stored,
\* they are the summaries created last, in the order of their creation, and a
\* summary once created is never changed: the list of summaries created
\* since the last clear() only grows at its end.
C33_SummariesAreLatest ==
    /\ [](driver = "memory" =>
             /\ Len(summaries) <= 3
             /\ summaries = LastN(created, 3))
    /\ [][ driver = "memory" =>
             \/ created' = <<>> /\ summaries' = <<>>
             \/ /\ Len(created') >= Len(created)
                /\ SubSeq(created', 1, Len(created)) = created ]_vars

\* more than three summaries were created, the oldest has been dropped
C33_Witness ==
    /\ driver = "memory"
    /\ Len(created) > 3
    /\ Len(summaries) = 3
    /\ created[1] # summaries[1]

----------------------------------------------------------------------------
(* What the context of a turn is derived from *)

\* C34: the memory context built for the agent turn about to run at
\* iteration k is derived from entries of iterations below k only: its
\* SUMMARIES part holds no summary whose range reaches iteration k.
C34_ContextFromEarlierIterations ==
    (driver \in {"gemini", "bridge"} /\ pc \in {"analyst", "executor"}) =>
        LET context == getRecentContext(Mem, count)
        IN  \A i \in 1..Len(context.summaries) : context.summaries[i].to < count

----------------------------------------------------------------------------
(* The iteration budget of a task *)

\* C35: the iteration budget is per task: the first loop test of every task
\* entered at the prompt, also of a task entered after an earlier task of the
\* session ended, starts an iteration, whose analyst and executor turns then
\* run.
C35_EveryTaskIterates ==
    [][ (driver \in {"gemini", "langchain"} /\ pc = "loop" /\ analystTurns = 0)
            => (pc' = "analyst" /\ count' <= maxIterations) ]_vars

----------------------------------------------------------------------------
(* The quota sentinel ends the task *)

\* a turn of the iteration just completed returned the quota sentinel
SentinelInIteration ==
    /\ driver \in {"gemini", "bridge"}
    /\ pc = "loop"
    /\ executorTurns > 0
    /\ \/ analystResult.response = QuotaSentinel
       \/ history[Len(history)].message = QuotaSentinel

\* C36: in the Gemini drivers an iteration in which the analyst's or the
\* executor's turn returned the quota sentinel is the last of its task: the
\* decision is stop whatever the other agent's text, the loop test that
\* follows leaves the loop, and the failed model call was not repeated (the
\* run's response is the sentinel and it used no tool).
C36_QuotaEndsTask ==
    /\ [](SentinelInIteration => ~shouldContinue)
    /\ []((lastRun.role # "none" /\ QuotaFailure(lastRun.outcome) /\ ~lastRun.threw) =>
             (lastRun.response = QuotaSentinel /\ lastRun.toolsUsed = <<>>))
    /\ [][ SentinelInIteration => (pc' \in {"await", "finished"} /\ count' = count) ]_vars

\* the analyst's call hit the quota, the executor's text asks to go on, and
\* the decision is stop
C36_Witness ==
    /\ SentinelInIteration
    /\ analystResult.response = QuotaSentinel
    /\ history[Len(history)].message = TxtCreate
    /\ count < maxIterations

----------------------------------------------------------------------------
(* The reached-maximum report *)

\* C37: the reached-maximum-iterations status is reported only when the loop
\* of the task ended because of the cap while the decision was to continue;
\* it is not reported when the decision was stop, also not when the stop was
\* decided in the iteration whose number is the cap.
C37_MaxReportedOnlyOnPendingContinue ==
    [][ (pc = "loop" /\ pc' # "analyst" /\ output' = "maxIterations")
            => (shouldContinue /\ count >= maxIterations) ]_vars

----------------------------------------------------------------------------
(* Pipelines in flight on one connection *)

\* the messages under which the invocations of thread t were made, in the
\* order of the invocations
MessagesOn(t) == [i \in 1..Len(checkpoints[t]) |-> checkpoints[t][i].msg]

\* C38: on every connection of the WebSocket server at most one
\* thinker-then-doer pipeline is in flight: no handler of a later chat message
\* runs while an earlier one waits for an agent, and the invocations made on
\* the doer thread follow the order of the messages.
C38_OnePipelinePerConnection ==
    driver = "ws" =>
        /\ \A c \in 1..Len(conns) : Len(conns[c].handlers) <= 1
        /\ \A t \in DOMAIN checkpoints : \A i, j \in 1..Len(checkpoints[t]) :
              i < j => MessagesOn(t)[i] <= MessagesOn(t)[j]

----------------------------------------------------------------------------
(* Agent invocations of one iteration *)

\* the place of an agent invocation in its iteration
InvocationRank ==
    [p \in {"analyst", "analystForce", "executor", "executorForce"} |->
        CASE p = "analyst" -> 1
          [] p = "analystForce" -> 2
          [] p = "executor" -> 3
          [] p = "executorForce" -> 4]

\* C39: in the LangChain CLI driver an agent turn issues at most one forced
\* retry, and what the retry returns is accepted as it is: the invocations of
\* an iteration are the analyst's, its retry, the executor's and its retry,
\* each at most once and in this order, so an agent is invoked at most twice
\* in a turn and an iteration has at most four invocations.
C39_OneForcedRetry ==
    [][ (driver = "langchain" /\ pc \in DOMAIN InvocationRank) =>
            /\ pc' \in DOMAIN InvocationRank =>
                   /\ InvocationRank[pc'] > InvocationRank[pc]
                   /\ count' = count
            /\ (pc \in {"analystForce", "executorForce"} /\ pc' \in {"executor", "loop"}) =>
                   /\ Len(history') = Len(history) + 1
                   /\ history'[Len(history')].message = lastTurn'.forcedContent ]_vars

\* a forced analyst retry came back without a tool call and was accepted
C39_Witness ==
    /\ driver = "langchain"
    /\ pc = "executor"
    /\ lastTurn.role = "analyst"
    /\ lastTurn.forced
    /\ lastTurn.forcedContent = LcPlain
    /\ history[Len(history)].message = LcPlain

----------------------------------------------------------------------------
(* The upfront observation *)

\* no summary covers iteration 0 or holds the observation
SummariesSkipZero ==
    \A i \in 1..Len(created) :
        /\ created[i].from >= 1
        /\ created[i].to = created[i].from + 2
        /\ created[i].to % 3 = 0
        /\ \A j \in 1..Len(created[i].parts) :
              created[i].parts[j].action # InitialObservation

\* the context of the next turn holds the observation only when an entry of
\* iteration 0 is among the last entries below the iteration
ObservationOnlyWhileRecent ==
    (driver \in {"gemini", "bridge"} /\ pc \in {"analyst", "executor"}) =>
        LET context == getRecentContext(Mem, count)
            below == SelectSeq(entries, LAMBDA e : e.iteration < count)
        IN  (\E j \in 1..Len(context.recent) : context.recent[j].action = InitialObservation)
            => \E i \in 1..Len(below) :
                  /\ i > Len(below) - 4
                  /\ below[i].iteration = 0
                  /\ below[i].action = InitialObservation

\* C40: the observation pass runs once, before iteration 1 of the first task
\* of the session, and records its entries at iteration 0; no summary covers
\* iteration 0, every summary having a range [3m-2, 3m] with m >= 1, so the
\* observation reaches a later prompt only while its entry is among the
\* retained recent entries.
C40_ObservationOnceAtZero ==
    /\ [][ (driver = "gemini" /\ pc # "observe" /\ pc' = "observe")
               => (count = 0 /\ lastRun.role = "none") ]_vars
    /\ [][ (driver \in {"gemini", "bridge"} /\ pc = "observe") =>
               /\ count = 0
               /\ Len(added') >= Len(added)
               /\ \A i \in (Len(added) + 1)..Len(added') : added'[i].iteration = 0
               /\ pc' = "loop" => added'[Len(added')].action = InitialObservation ]_vars
    /\ [](driver \in {"gemini", "bridge"} => SummariesSkipZero)
    /\ []ObservationOnlyWhileRecent

====
